---- MODULE Spec2Model ----
(***************************************************************************)
(* ShadePlan frontend (Next.js / React / Leaflet).                         *)
(*                                                                         *)
(* Three parts of the frontend are modelled:                               *)
(*   - the colour ladders of HeatZoneLayer and ShadeLayer (pure functions  *)
(*     of one score), exercised by LadderSpec;                             *)
(*   - ShadeLayer.getColor, the colorMode switch over a ShadeZone,         *)
(*     exercised by ColorSpec;                                             *)
(*   - the Home page (page.tsx) with its SearchForm, ViewToggle and        *)
(*     TimeSlider controls and the analysis requests in flight, exercised  *)
(*     by Spec (the page driven through its rendered controls) and by      *)
(*     HandlerSpec (the page's handlers called directly).                  *)
(*                                                                         *)
(* Scores are JavaScript numbers; they are modelled in tenths (85.5 is     *)
(* 855), so that fractional scores next to a threshold exist.              *)
(***************************************************************************)
EXTENDS Integers, Sequences, FiniteSets, TLC

VARIABLES
    \* ---- ladders: one score and the colours the five ladders give it
    score,          \* the number handed to the ladder functions (tenths)
    bands,          \* the colours returned for score, NoBands before a call
    \* ---- ShadeLayer: one zone under a colorMode prop
    zone,           \* ShadeZone: its four score fields (tenths)
    colorMode,      \* the colorMode prop of ShadeLayer
    shadeColor,     \* pathOptions.color rendered for zone
    \* ---- Home (page.tsx) state
    loading, error, heatResult, shadeResult, viewMode, selectedHour,
    analysisMode,
    \* ---- TimeSlider state
    slider,         \* whether it is mounted, and its local hour
    \* ---- SearchForm state
    location, mode,
    \* ---- fetches awaited by handleAnalyze calls
    inflight,       \* set of requests whose fetch has not settled
    nextId,         \* serial number of the next handleAnalyze call
    \* ---- what the last step did (history, not program state)
    lastEvent,
    \* ---- ShadeLayer / HeatZoneLayer given a zones prop
    zones,          \* the zones prop
    shadeLayer,     \* what ShadeLayer rendered and what its effect did
    heatLayer,      \* what HeatZoneLayer rendered and what its effect did
    \* ---- the proxy routes and the backend
    proxy,          \* invocations of the route handlers
    backendLog      \* fetches the route handlers sent to the backend

ladderVars == <<score, bands>>
colorVars  == <<zone, colorMode, shadeColor>>
homeVars   == <<loading, error, heatResult, shadeResult, viewMode,
                selectedHour, analysisMode>>
formVars   == <<location, mode>>
netVars    == <<inflight, nextId>>
pageVars   == <<homeVars, slider, formVars, netVars, lastEvent>>
geoVars    == <<zones, shadeLayer, heatLayer>>
pathVars   == <<proxy, backendLog>>
vars       == <<ladderVars, colorVars, pageVars, geoVars, pathVars>>

(***************************************************************************)
(* Colours and score units                                                 *)
(***************************************************************************)
Tenths(n) == n * 10

RED    == "#dc2626"     \* red-600
ORANGE == "#f97316"     \* orange-500
YELLOW4 == "#fbbf24"    \* yellow-400
YELLOW6 == "#ca8a04"    \* yellow-600
GREEN  == "#16a34a"     \* green-600

\* Range of the score handed to a ladder, in tenths: -10.0 .. 110.0
MinBelow == 100
MaxScore == 1100
Scores == (0 - MinBelow) .. MaxScore

(***************************************************************************)
(* HeatZoneLayer.getColor                                                  *)
(***************************************************************************)
HeatZoneLayer_getColor(s) ==
    IF s >= Tenths(80) THEN RED
    ELSE IF s >= Tenths(60) THEN ORANGE
    ELSE YELLOW4

(***************************************************************************)
(* ShadeLayer ladders                                                      *)
(***************************************************************************)
getHeatColor_strict(heatScore) ==
    IF heatScore > Tenths(80) THEN RED
    ELSE IF heatScore > Tenths(60) THEN ORANGE
    ELSE YELLOW4

getHeatColor(heatScore) ==
    IF heatScore >= Tenths(80) THEN RED
    ELSE IF heatScore >= Tenths(60) THEN ORANGE
    ELSE YELLOW4

getShadeColor_strict(shadeCoverage) ==
    IF shadeCoverage > Tenths(70) THEN GREEN
    ELSE IF shadeCoverage > Tenths(40) THEN YELLOW6
    ELSE RED

getShadeColor(shadeCoverage) ==
    IF shadeCoverage >= Tenths(70) THEN GREEN
    ELSE IF shadeCoverage >= Tenths(40) THEN YELLOW6
    ELSE RED

getDeficitColor_strict(shadeDeficit) ==
    IF shadeDeficit > Tenths(70) THEN RED
    ELSE IF shadeDeficit > Tenths(40) THEN ORANGE
    ELSE GREEN

\* the deficit ladder with the coverage ladder's polarity
getDeficitColor_swapped(shadeDeficit) ==
    IF shadeDeficit >= Tenths(70) THEN GREEN
    ELSE IF shadeDeficit >= Tenths(40) THEN ORANGE
    ELSE RED

getDeficitColor(shadeDeficit) ==
    IF shadeDeficit >= Tenths(70) THEN RED
    ELSE IF shadeDeficit >= Tenths(40) THEN ORANGE
    ELSE GREEN

\* the combined ladder with the 50 rung checked before the 70 rung
getCombinedColor_misordered(combinedScore) ==
    IF combinedScore >= Tenths(50) THEN ORANGE
    ELSE IF combinedScore >= Tenths(70) THEN RED
    ELSE IF combinedScore >= Tenths(30) THEN YELLOW6
    ELSE GREEN

getCombinedColor(combinedScore) ==
    IF combinedScore >= Tenths(70) THEN RED
    ELSE IF combinedScore >= Tenths(50) THEN ORANGE
    ELSE IF combinedScore >= Tenths(30) THEN YELLOW6
    ELSE GREEN

NoBands ==
    [called |-> FALSE, heatZoneLayer |-> "", heat |-> "", coverage |-> "",
     deficit |-> "", combined |-> ""]

\* every ladder applied to the same number
Ladders(s) ==
    [called        |-> TRUE,
     heatZoneLayer |-> HeatZoneLayer_getColor(s),
     heat          |-> getHeatColor(s),
     coverage      |-> getShadeColor(s),
     deficit       |-> getDeficitColor(s),
     combined      |-> getCombinedColor(s)]

(***************************************************************************)
(* ShadeLayer.getColor: the colorMode switch                               *)
(***************************************************************************)
\* values of the colorMode prop: the four of the ColorMode type, the prop
\* left out, and a string outside the type (the switch's default branch)
ColorModeProps == {"heat", "coverage", "deficit", "combined", "undefined", "other"}

\* destructuring default: colorMode = 'combined'
ColorModeParam(prop) == IF prop = "undefined" THEN "combined" ELSE prop

\* getColor reading heat_score in every mode
getColor_heatOnly(cm, z) ==
    CASE cm = "heat"     -> getHeatColor(z.heat_score)
      [] cm = "coverage" -> getShadeColor(z.heat_score)
      [] cm = "deficit"  -> getDeficitColor(z.heat_score)
      [] OTHER           -> getCombinedColor(z.heat_score)

getColor(cm, z) ==
    CASE cm = "heat"     -> getHeatColor(z.heat_score)
      [] cm = "coverage" -> getShadeColor(z.shade_coverage)
      [] cm = "deficit"  -> getDeficitColor(z.shade_deficit)
      [] OTHER           -> getCombinedColor(z.combined_score)

\* score values (tenths) a ShadeZone field takes: both sides of every rung
\* of the field's ladder, and the values of the documented scenarios
HeatScoreValues     == {599, 600, 799, 800, 855}
ShadeCoverageValues == {399, 400, 450, 699, 700}
ShadeDeficitValues  == {399, 400, 699, 700, 720}
CombinedScoreValues == {299, 300, 499, 500, 680, 699, 700}

FieldValues(f) ==
    CASE f = "heat_score"     -> HeatScoreValues
      [] f = "shade_coverage" -> ShadeCoverageValues
      [] f = "shade_deficit"  -> ShadeDeficitValues
      [] f = "combined_score" -> CombinedScoreValues

ZoneFields == {"heat_score", "shade_coverage", "shade_deficit", "combined_score"}

ShadeZones ==
    [heat_score : HeatScoreValues, shade_coverage : ShadeCoverageValues,
     shade_deficit : ShadeDeficitValues, combined_score : CombinedScoreValues]

\* ShadeLayer rendered with these props: the colour of the zone's shape
RenderShadeLayer(prop, z) == getColor(ColorModeParam(prop), z)

(***************************************************************************)
(* SearchForm: the location text and the analysis mode                     *)
(***************************************************************************)
MaxLocLen == 2
LocChars == {" ", "a"}
LocStrings == UNION {[1..n -> LocChars] : n \in 0..MaxLocLen}

RECURSIVE trimStart(_)
trimStart(str) ==
    IF str = <<>> THEN <<>>
    ELSE IF Head(str) = " " THEN trimStart(Tail(str)) ELSE str

RECURSIVE trimEnd(_)
trimEnd(str) ==
    IF str = <<>> THEN <<>>
    ELSE IF str[Len(str)] = " " THEN trimEnd(SubSeq(str, 1, Len(str) - 1))
    ELSE str

\* String.prototype.trim
trim(str) == trimEnd(trimStart(str))

\* JavaScript truthiness of a string
Truthy(str) == str # <<>>

AnalysisModes == {"heat", "combined"}
ViewModes == {"heat", "shade", "combined"}

(***************************************************************************)
(* Requests and responses                                                  *)
(***************************************************************************)
MaxRequests == 2        \* handleAnalyze calls in one run
MaxZones == 1           \* zones in one response: 0 .. MaxZones

Null == [kind |-> "null", id |-> 0, nzones |-> 0]
NoError == "null"

\* body of a 2xx response to request r: AnalyzeResponse for /api/analyze-heat,
\* ShadeAnalysisResponse for /api/analyze-combined, with n zones
ResponseData(r, n) == [kind |-> r.mode, id |-> r.id, nzones |-> n]

\* what the awaited fetch and response.json() of handleAnalyze come to
Outcomes ==
    [type : {"ok"}, nzones : 0..MaxZones, message : {""}]
      \cup [type : {"notOk"}, nzones : {0}, message : {""}]
      \cup [type : {"rejected"}, nzones : {0}, message : {"Failed to fetch"}]
      \cup [type : {"badJson"}, nzones : {0}, message : {"Unexpected token"}]

\* the Home state a handleAnalyze call started from
HomeState ==
    [loading |-> loading, error |-> error, heatResult |-> heatResult,
     shadeResult |-> shadeResult, viewMode |-> viewMode,
     selectedHour |-> selectedHour, analysisMode |-> analysisMode]

InitHome ==
    [loading |-> FALSE, error |-> NoError, heatResult |-> Null,
     shadeResult |-> Null, viewMode |-> "heat", selectedHour |-> 14,
     analysisMode |-> "heat"]

NoReq == [id |-> 0, mode |-> "none", location |-> <<>>, before |-> InitHome]

\* history record of a step: the operation, its request, the response body
\* it delivered and the argument it was called with
Event(op, r, data, arg) == [op |-> op, req |-> r, data |-> data, arg |-> arg]

(***************************************************************************)
(* Home: derived render values                                             *)
(***************************************************************************)
hasHeatData  == heatResult # Null /\ heatResult.nzones > 0
hasShadeData == shadeResult # Null /\ shadeResult.nzones > 0
hasAnyData   == hasHeatData \/ hasShadeData

\* SearchForm controls
SearchInputDisabled == loading
SubmitDisabled == loading \/ ~Truthy(trim(location))
ModeRadioDisabled == loading

\* ViewToggle: rendered inside hasAnyData; per-button isDisabled
ViewToggleRendered == hasAnyData
ViewButtonDisabled(view) == loading \/ (~hasShadeData /\ view # "heat")

\* TimeSlider: rendered for shade/combined views with shade data
TimeSliderRendered == hasAnyData /\ hasShadeData /\ viewMode \in {"shade", "combined"}
TimeSliderDisabled == loading

sunrise == 6
sunset == 20

\* {error && <div ...>{error}</div>}
ErrorBannerRendered == error # NoError

\* the analysis-type line of the header, rendered inside hasAnyData
HeaderLabel(home) ==
    IF \/ home.heatResult # Null /\ home.heatResult.nzones > 0
       \/ home.shadeResult # Null /\ home.shadeResult.nzones > 0
    THEN IF home.analysisMode = "combined"
         THEN "Heat + Shade Analysis" ELSE "Heat Analysis"
    ELSE "not rendered"

(***************************************************************************)
(* MapView.  The sources hold two MapView components: the file             *)
(* components/MapView.tsx, and a second one (part_002) that also shows the *)
(* ShadeLayer in the heat view when there are no heat zones.               *)
(***************************************************************************)
MapViewVariants == {"MapView.tsx", "part_002"}

\* zones && zones.length > 0, for heatResult?.heat_zones / shadeResult?.zones
hasZones(result) == result # Null /\ result.nzones > 0

showHeatLayer(variant, vm, heatRes, shadeRes) ==
    vm = "heat" /\ hasZones(heatRes)

\* part_002's showShadeLayer without the length test
showShadeLayer_noLength(variant, vm, heatRes, shadeRes) ==
    IF variant = "MapView.tsx"
    THEN vm \in {"shade", "combined"} /\ hasZones(shadeRes)
    ELSE shadeRes # Null /\ (\/ vm = "shade"
                             \/ vm = "combined"
                             \/ (vm = "heat" /\ ~hasZones(heatRes)))

showShadeLayer(variant, vm, heatRes, shadeRes) ==
    IF variant = "MapView.tsx"
    THEN vm \in {"shade", "combined"} /\ hasZones(shadeRes)
    ELSE hasZones(shadeRes) /\ (\/ vm = "shade"
                                \/ vm = "combined"
                                \/ (vm = "heat" /\ ~hasZones(heatRes)))

\* a MapView that colours the ShadeLayer by the combined score in every view
shadeColorMode_alwaysCombined(variant, vm) == "combined"

shadeColorMode(variant, vm) ==
    IF variant = "MapView.tsx"
    THEN IF vm = "shade" THEN "coverage" ELSE "combined"
    ELSE IF vm = "heat" THEN "heat"
         ELSE IF vm = "shade" THEN "coverage" ELSE "combined"

\* {(showHeatLayer || showShadeLayer) && <Legend viewMode={viewMode} />}
LegendRendered(variant, vm, heatRes, shadeRes) ==
    \/ showHeatLayer(variant, vm, heatRes, shadeRes)
    \/ showShadeLayer(variant, vm, heatRes, shadeRes)

(***************************************************************************)
(* Legend (the viewMode-aware component both MapViews render with a        *)
(* viewMode prop).  A row is a swatch class, a label and the range printed *)
(* after it, in whole points; "70+" is open above, "<40" open below.       *)
(***************************************************************************)
\* the colour of a Tailwind background class (default palette)
TailwindColor(class) ==
    CASE class = "bg-red-600"    -> RED
      [] class = "bg-orange-500" -> ORANGE
      [] class = "bg-yellow-400" -> YELLOW4
      [] class = "bg-yellow-600" -> YELLOW6
      [] class = "bg-green-600"  -> GREEN

LegendRow(class, label, lo, hi, open) ==
    [class |-> class, label |-> label, lo |-> lo, hi |-> hi, open |-> open]

Legend(viewModeProp) ==
    LET viewModeParam ==
            IF viewModeProp = "undefined" THEN "heat" ELSE viewModeProp
    IN
    IF viewModeParam = "heat"
    THEN [title |-> "Heat Score",
          rows |-> <<LegendRow("bg-red-600", "High", 80, 100, "closed"),
                     LegendRow("bg-orange-500", "Medium", 60, 79, "closed"),
                     LegendRow("bg-yellow-400", "Low", 40, 59, "closed")>>]
    ELSE IF viewModeParam = "shade"
    THEN [title |-> "Shade Coverage",
          rows |-> <<LegendRow("bg-green-600", "Good", 70, 70, "above"),
                     LegendRow("bg-yellow-600", "Moderate", 40, 69, "closed"),
                     LegendRow("bg-red-600", "Poor", 40, 40, "below")>>]
    ELSE [title |-> "Priority Score",
          rows |-> <<LegendRow("bg-red-600", "Critical", 70, 70, "above"),
                     LegendRow("bg-orange-500", "High", 50, 69, "closed"),
                     LegendRow("bg-yellow-600", "Medium", 30, 49, "closed"),
                     LegendRow("bg-green-600", "Low", 30, 30, "below")>>]

\* the README's Heat Score Interpretation table
HeatScoreInterpretation ==
    <<[lo |-> 80, hi |-> 100, priority |-> "High"],
      [lo |-> 60, hi |-> 79, priority |-> "Medium"],
      [lo |-> 40, hi |-> 59, priority |-> "Low"]>>

\* Home renders MapView inside hasAnyData
MapViewRendered == hasAnyData

\* the hourly coverage summary, for a response with n hourly_coverage rows
HourlySummaryRendered(n) == hasAnyData /\ hasShadeData /\ n > 0

(***************************************************************************)
(* Home: handlers                                                          *)
(***************************************************************************)
\* handleAnalyze up to its await: three state updates and the fetch
handleAnalyze_noLoading(loc, m) ==
    /\ nextId <= MaxRequests
    /\ error' = NoError
    /\ analysisMode' = m
    /\ inflight' = inflight \cup
          {[id |-> nextId, mode |-> m, location |-> loc, before |-> HomeState]}
    /\ nextId' = nextId + 1
    /\ lastEvent' = Event("analyze", [id |-> nextId, mode |-> m, location |-> loc,
                                      before |-> HomeState], Null, m)
    /\ UNCHANGED <<loading, heatResult, shadeResult, viewMode, selectedHour>>

\* handleAnalyze without setError(null)
handleAnalyze_keepsError(loc, m) ==
    /\ nextId <= MaxRequests
    /\ loading' = TRUE
    /\ analysisMode' = m
    /\ inflight' = inflight \cup
          {[id |-> nextId, mode |-> m, location |-> loc, before |-> HomeState]}
    /\ nextId' = nextId + 1
    /\ lastEvent' = Event("analyze", [id |-> nextId, mode |-> m, location |-> loc,
                                      before |-> HomeState], Null, m)
    /\ UNCHANGED <<error, heatResult, shadeResult, viewMode, selectedHour>>

handleAnalyze(loc, m) ==
    /\ nextId <= MaxRequests
    /\ loading' = TRUE
    /\ error' = NoError
    /\ analysisMode' = m
    /\ inflight' = inflight \cup
          {[id |-> nextId, mode |-> m, location |-> loc, before |-> HomeState]}
    /\ nextId' = nextId + 1
    /\ lastEvent' = Event("analyze", [id |-> nextId, mode |-> m, location |-> loc,
                                      before |-> HomeState], Null, m)
    /\ UNCHANGED <<heatResult, shadeResult, viewMode, selectedHour>>

\* the Error thrown on a response that is not ok
NotOkMessage(m) ==
    IF m = "heat" THEN "Failed to analyze heat zones"
    ELSE "Failed to analyze heat and shade zones"

\* a catch that shows its fallback text whatever was thrown
CatchMessage_fallbackOnly(isError, message) == "An error occurred"

\* catch (err): err instanceof Error ? err.message : 'An error occurred'
CatchMessage(isError, message) == IF isError THEN message ELSE "An error occurred"

\* the success branch that sets the new result and leaves the other one
AnalyzeSucceeded_keepsOther(r, data) ==
    /\ IF r.mode = "heat"
       THEN heatResult' = data /\ viewMode' = "heat" /\ UNCHANGED shadeResult
       ELSE shadeResult' = data /\ viewMode' = "combined" /\ UNCHANGED heatResult
    /\ loading' = FALSE
    /\ UNCHANGED <<error, selectedHour, analysisMode>>

\* a success branch behind a sequencing guard: only the response of the
\* latest handleAnalyze call is applied
AnalyzeSucceeded_latestOnly(r, data) ==
    /\ IF r.id = nextId - 1
       THEN IF r.mode = "heat"
            THEN heatResult' = data /\ shadeResult' = Null /\ viewMode' = "heat"
            ELSE shadeResult' = data /\ heatResult' = Null /\ viewMode' = "combined"
       ELSE UNCHANGED <<heatResult, shadeResult, viewMode>>
    /\ loading' = FALSE
    /\ UNCHANGED <<error, selectedHour, analysisMode>>

\* handleAnalyze after a 2xx response with a parsed body, finally included.
\* The setters run in one synchronous continuation after the last await and
\* React (18 and later, which Next.js 15 ships) commits their updates in one
\* render, so the step is one state change.
AnalyzeSucceeded(r, data) ==
    /\ IF r.mode = "heat"
       THEN heatResult' = data /\ shadeResult' = Null /\ viewMode' = "heat"
       ELSE shadeResult' = data /\ heatResult' = Null /\ viewMode' = "combined"
    /\ loading' = FALSE
    /\ UNCHANGED <<error, selectedHour, analysisMode>>

\* a catch that also drops the results on display
AnalyzeFailed_clearsResults(r, o) ==
    /\ error' = IF o.type = "notOk"
                THEN CatchMessage(TRUE, NotOkMessage(r.mode))
                ELSE CatchMessage(TRUE, o.message)
    /\ loading' = FALSE
    /\ heatResult' = Null
    /\ shadeResult' = Null
    /\ UNCHANGED <<viewMode, selectedHour, analysisMode>>

\* a catch with no finally: a failure leaves loading as it was
AnalyzeFailed_staysLoading(r, o) ==
    /\ error' = IF o.type = "notOk"
                THEN CatchMessage(TRUE, NotOkMessage(r.mode))
                ELSE CatchMessage(TRUE, o.message)
    /\ UNCHANGED <<loading, heatResult, shadeResult, viewMode, selectedHour,
                   analysisMode>>

\* handleAnalyze after a throw inside try: catch and finally
AnalyzeFailed(r, o) ==
    /\ error' = IF o.type = "notOk"
                THEN CatchMessage(TRUE, NotOkMessage(r.mode))
                ELSE CatchMessage(TRUE, o.message)
    /\ loading' = FALSE
    /\ UNCHANGED <<heatResult, shadeResult, viewMode, selectedHour, analysisMode>>

\* a settle that fetches again when the attempt failed
Settle_retries(r, o) ==
    /\ r \in inflight
    /\ IF o.type = "ok"
       THEN /\ AnalyzeSucceeded(r, ResponseData(r, o.nzones))
            /\ lastEvent' = Event("success", r, ResponseData(r, o.nzones), o.type)
            /\ inflight' = inflight \ {r}
            /\ UNCHANGED nextId
       ELSE /\ AnalyzeFailed(r, o)
            /\ lastEvent' = Event("failure", r, Null, o.type)
            /\ IF nextId <= MaxRequests
               THEN /\ inflight' = (inflight \ {r}) \cup {[r EXCEPT !.id = nextId]}
                    /\ nextId' = nextId + 1
               ELSE /\ inflight' = inflight \ {r}
                    /\ UNCHANGED nextId
    /\ UNCHANGED formVars

\* the fetch of request r settles and handleAnalyze runs to its end
Settle(r, o) ==
    /\ r \in inflight
    /\ inflight' = inflight \ {r}
    /\ IF o.type = "ok"
       THEN /\ AnalyzeSucceeded(r, ResponseData(r, o.nzones))
            /\ lastEvent' = Event("success", r, ResponseData(r, o.nzones), o.type)
       ELSE /\ AnalyzeFailed(r, o)
            /\ lastEvent' = Event("failure", r, Null, o.type)
    /\ UNCHANGED <<formVars, nextId>>

\* handleViewChange that also resets the hour
handleViewChange_resetsHour(newView) ==
    /\ IF (newView = "shade" \/ newView = "combined") /\ shadeResult = Null
       THEN UNCHANGED <<viewMode, selectedHour>>
       ELSE viewMode' = newView /\ selectedHour' = 14
    /\ lastEvent' = Event("viewChange", NoReq, Null, newView)
    /\ UNCHANGED <<loading, error, heatResult, shadeResult, analysisMode>>

\* handleViewChange without its shade-data check
handleViewChange_unguarded(newView) ==
    /\ viewMode' = newView
    /\ lastEvent' = Event("viewChange", NoReq, Null, newView)
    /\ UNCHANGED <<loading, error, heatResult, shadeResult, selectedHour,
                   analysisMode>>

handleViewChange(newView) ==
    /\ IF (newView = "shade" \/ newView = "combined") /\ shadeResult = Null
       THEN UNCHANGED viewMode
       ELSE viewMode' = newView
    /\ lastEvent' = Event("viewChange", NoReq, Null, newView)
    /\ UNCHANGED <<loading, error, heatResult, shadeResult, selectedHour,
                   analysisMode>>

handleHourChange(hour) ==
    /\ selectedHour' = hour
    /\ lastEvent' = Event("hourChange", NoReq, Null, "hour")
    /\ UNCHANGED <<loading, error, heatResult, shadeResult, viewMode, analysisMode>>

(***************************************************************************)
(* TimeSlider                                                              *)
(***************************************************************************)
\* e.target.value of the range input at position h: its decimal digits
RangeValue(h) == IF h < 10 THEN <<h>> ELSE <<h \div 10, h % 10>>

RECURSIVE parseIntFrom(_, _)
parseIntFrom(digits, acc) ==
    IF digits = <<>> THEN acc
    ELSE parseIntFrom(Tail(digits), acc * 10 + Head(digits))

parseInt(digits) == parseIntFrom(digits, 0)

Unmounted == [mounted |-> FALSE, hour |-> 0]

\* Home re-rendered after an event handler left the TimeSlider's hour state
\* at localHour: the slider is mounted when its render condition holds (a
\* fresh mount starts from useState(initialHour)), and the effect on
\* [initialHour] sets hour to initialHour on mount and whenever the prop
\* differs from the previous render's.
RenderTimeSlider(localHour) ==
    slider' =
        IF ~TimeSliderRendered' THEN Unmounted
        ELSE IF ~slider.mounted \/ selectedHour' # selectedHour
             THEN [mounted |-> TRUE, hour |-> selectedHour']
             ELSE [mounted |-> TRUE, hour |-> localHour]

\* a handleChange that keeps the new hour to itself
TimeSlider_handleChange_localOnly(value) ==
    /\ lastEvent' = Event("hourChange", NoReq, Null, "hour")
    /\ UNCHANGED homeVars
    /\ RenderTimeSlider(parseInt(value))

\* TimeSlider.handleChange: setHour(newHour); onChange(newHour)
TimeSlider_handleChange(value) ==
    /\ handleHourChange(parseInt(value))
    /\ RenderTimeSlider(parseInt(value))

(***************************************************************************)
(* SearchForm.handleSubmit                                                 *)
(***************************************************************************)
handleSubmit ==
    IF Truthy(trim(location))
    THEN handleAnalyze(location, mode)
    ELSE /\ lastEvent' = Event("submit", NoReq, Null, "blank")
         /\ UNCHANGED <<homeVars, netVars>>

(***************************************************************************)
(* ShadeLayer and HeatZoneLayer: shapes and fit-bounds                     *)
(*                                                                         *)
(* A coordinate is the GeoJSON pair <<lon, lat>>; a Leaflet position is    *)
(* <<lat, lon>>.  geometry.coordinates is a list of rings, the outer ring  *)
(* first (a Polygon always has one).  An optional field is a record with a *)
(* def flag.                                                               *)
(***************************************************************************)
MaxRing == 2        \* points in an outer ring
MaxGeoZones == 2    \* zones in a zones prop

Coords == {<<0 - 122, 37>>, <<0 - 121, 38>>}
Rings == UNION {[1..n -> Coords] : n \in 0..MaxRing}
HoleRing == << <<0 - 120, 39>> >>

NoGeometry == [def |-> FALSE, coordsDef |-> FALSE, coordinates |-> <<>>]
Geometries ==
    {NoGeometry, [def |-> TRUE, coordsDef |-> FALSE, coordinates |-> <<>>]}
      \cup {[def |-> TRUE, coordsDef |-> TRUE, coordinates |-> <<ring>>] :
               ring \in Rings}
      \cup {[def |-> TRUE, coordsDef |-> TRUE,
             coordinates |-> << << <<0 - 122, 37>> >>, HoleRing >>]}

NoCenter == [def |-> FALSE, lat |-> 0, lon |-> 0]
Centers == {NoCenter, [def |-> TRUE, lat |-> 40, lon |-> 0 - 74]}

GeoZones == [geometry : Geometries, center : Centers]

\* zone.geometry && zone.geometry.coordinates
hasCoordinates(z) == z.geometry.def /\ z.geometry.coordsDef

\* coord => coord, the pair left as it came
toLatLng_unswapped(coord) == coord

\* coord => [coord[1], coord[0]]
toLatLng(coord) == <<coord[2], coord[1]>>

\* zone.geometry.coordinates[0].map(coord => [coord[1], coord[0]])
positions(z) ==
    [k \in 1..Len(z.geometry.coordinates[1]) |->
        toLatLng(z.geometry.coordinates[1][k])]

NoShape == [kind |-> "null", positions |-> <<>>, center |-> <<>>, radius |-> 0]

\* what ShadeLayer's zones.map callback returns for one zone
ShadeLayer_shape(z) ==
    IF hasCoordinates(z)
    THEN [kind |-> "Polygon", positions |-> positions(z),
          center |-> <<>>, radius |-> 0]
    ELSE IF z.center.def
         THEN [kind |-> "Circle", positions |-> <<>>,
               center |-> <<z.center.lat, z.center.lon>>, radius |-> 50]
         ELSE NoShape

\* the validBounds array after zones.forEach
RECURSIVE validBounds(_)
validBounds(zs) ==
    IF zs = <<>> THEN <<>>
    ELSE (IF hasCoordinates(Head(zs)) THEN positions(Head(zs))
          ELSE IF Head(zs).center.def
               THEN << <<Head(zs).center.lat, Head(zs).center.lon>> >>
               ELSE <<>>)
         \o validBounds(Tail(zs))

NoFit == [called |-> FALSE, points |-> <<>>]

\* a fit-bounds effect that calls fitBounds whenever there are zones
ShadeLayer_fitBounds_always(zs) ==
    IF Len(zs) > 0
    THEN [called |-> TRUE, points |-> validBounds(zs)]
    ELSE NoFit

\* ShadeLayer's effect: fitBounds with validBounds, if there is any point
ShadeLayer_fitBounds(zs) ==
    IF Len(zs) > 0 /\ Len(validBounds(zs)) > 0
    THEN [called |-> TRUE, points |-> validBounds(zs)]
    ELSE NoFit

ShadeLayer(zs) ==
    [shapes |-> [i \in 1..Len(zs) |-> ShadeLayer_shape(zs[i])],
     fitBounds |-> ShadeLayer_fitBounds(zs),
     threw |-> FALSE]

\* bounds.flat() in HeatZoneLayer's effect
RECURSIVE flatBounds(_)
flatBounds(zs) ==
    IF zs = <<>> THEN <<>> ELSE positions(Head(zs)) \o flatBounds(Tail(zs))

\* HeatZoneLayer reads zone.geometry.coordinates[0] of every zone without a
\* presence check: a zone without it makes the render throw (TypeError)
HeatZoneLayer(zs) ==
    IF \A i \in 1..Len(zs) : hasCoordinates(zs[i])
    THEN [shapes |-> [i \in 1..Len(zs) |->
                        [kind |-> "Polygon", positions |-> positions(zs[i]),
                         center |-> <<>>, radius |-> 0]],
          fitBounds |-> IF Len(zs) > 0
                        THEN [called |-> TRUE, points |-> flatBounds(zs)]
                        ELSE NoFit,
          threw |-> FALSE]
    ELSE [shapes |-> <<>>, fitBounds |-> NoFit, threw |-> TRUE]

(***************************************************************************)
(* The proxy routes (api/analyze-heat, api/analyze-combined) and the       *)
(* backend.  A JSON object is a record of optional fields: a field with    *)
(* def FALSE is an absent key (JSON.stringify drops undefined values).     *)
(***************************************************************************)
MaxDirectPosts == 1     \* requests sent to the routes by other clients

BACKEND_URL == "http://localhost:8080"

Routes == {"/api/analyze-heat", "/api/analyze-combined"}

\* the URL handleAnalyze fetches for a mode
RouteOf(m) ==
    IF m = "heat" THEN "/api/analyze-heat" ELSE "/api/analyze-combined"

\* the backend endpoint a route fetches
BackendPath(route) ==
    IF route = "/api/analyze-heat" THEN "/analyze" ELSE "/analyze-combined"

\* the error body of a route's catch block
RouteError(route) ==
    IF route = "/api/analyze-heat"
    THEN "Failed to analyze heat zones"
    ELSE "Failed to analyze heat and shade zones"

Undefined == [def |-> FALSE, val |-> <<>>]
Defined(v) == [def |-> TRUE, val |-> v]

JsonObject(loc, hrs, ext) ==
    [kind |-> "object", location |-> loc, hours |-> hrs, extra |-> ext]

\* request bodies: not JSON at all, the JSON value null, or an object
NotJson == [kind |-> "unparsable", location |-> Undefined,
            hours |-> Undefined, extra |-> Undefined]
JsonNull == [kind |-> "null", location |-> Undefined,
             hours |-> Undefined, extra |-> Undefined]

AnalysisHours == <<14, 16, 18, 20>>

\* the body handleAnalyze sends for request r
PageBody(r) ==
    IF r.mode = "heat"
    THEN JsonObject(Defined(r.location), Undefined, Undefined)
    ELSE JsonObject(Defined(r.location), Defined(AnalysisHours), Undefined)

\* bodies another client may send
DirectBodies ==
    {NotJson, JsonNull}
      \cup {JsonObject(loc, hrs, ext) :
               loc \in {Undefined, Defined(<<"a">>)},
               hrs \in {Undefined, Defined(<<14>>)},
               ext \in {Undefined, Defined(<<"x">>)}}

\* a route that forwards the whole request body
ForwardedBody_whole(route, body) == body

\* const { location } = ...; JSON.stringify({ location })
\* const { location, hours } = ...; JSON.stringify({ location, hours })
ForwardedBody(route, body) ==
    IF route = "/api/analyze-heat"
    THEN JsonObject(body.location, Undefined, Undefined)
    ELSE JsonObject(body.location, body.hours, Undefined)

\* what the backend fetch of a route can come to
NoBackend == [type |-> "none", status |-> 0, parsable |-> FALSE,
              nzones |-> 0, detail |-> ""]
BackendOutcomes ==
    [type : {"ok"}, status : {200}, parsable : {TRUE},
     nzones : 0..MaxZones, detail : {""}]
      \cup [type : {"ok"}, status : {201}, parsable : BOOLEAN,
            nzones : {0}, detail : {""}]
      \cup [type : {"notOk"}, status : {404}, parsable : {TRUE},
            nzones : {0}, detail : {"Location not found"}]
      \cup [type : {"rejected"}, status : {0}, parsable : {FALSE},
            nzones : {0}, detail : {"fetch failed"}]

NoResponse == [status |-> 0, nzones |-> 0, detail |-> "", error |-> ""]

\* NextResponse.json({ error: ... }, { status: 500 })
ErrorResponse(route) ==
    [status |-> 500, nzones |-> 0, detail |-> "", error |-> RouteError(route)]

\* NextResponse.json(data)
DataResponse(o) ==
    [status |-> 200, nzones |-> o.nzones, detail |-> o.detail, error |-> ""]

DirectPosts == {inv \in proxy : inv.client = "direct"}

\* POST up to its await of the backend fetch: request.json() rejects on a
\* body that is not JSON and destructuring null throws, both caught
POST_begin(client, id, route, body) ==
    IF body.kind \in {"unparsable", "null"}
    THEN /\ proxy' = proxy \cup
                {[id |-> id, client |-> client, route |-> route,
                  body |-> body, stage |-> "responded",
                  backend |-> NoBackend, response |-> ErrorResponse(route)]}
         /\ UNCHANGED backendLog
    ELSE /\ proxy' = proxy \cup
                {[id |-> id, client |-> client, route |-> route,
                  body |-> body, stage |-> "fetching",
                  backend |-> NoBackend, response |-> NoResponse]}
         /\ backendLog' = backendLog \cup
                {[client |-> client, inv |-> id,
                  url |-> <<BACKEND_URL, BackendPath(route)>>,
                  method |-> "POST",
                  body |-> ForwardedBody(route, body)]}

\* POST from the settling of its backend fetch to its return
POST_end(inv, o) ==
    /\ inv \in proxy
    /\ inv.stage = "fetching"
    /\ proxy' = (proxy \ {inv}) \cup
          {[inv EXCEPT !.stage = "responded", !.backend = o,
                       !.response = IF o.type = "ok" /\ o.parsable
                                    THEN DataResponse(o)
                                    ELSE ErrorResponse(inv.route)]}
    /\ UNCHANGED backendLog

\* what handleAnalyze's fetch resolves to, given the route's response
PageOutcome(response) ==
    IF response.status = 200
    THEN [type |-> "ok", nzones |-> response.nzones, message |-> ""]
    ELSE [type |-> "notOk", nzones |-> 0, message |-> ""]

Rejected == [type |-> "rejected", nzones |-> 0, message |-> "Failed to fetch"]

(***************************************************************************)
(* Initial states                                                          *)
(***************************************************************************)
PageInit ==
    /\ loading = FALSE
    /\ error = NoError
    /\ heatResult = Null
    /\ shadeResult = Null
    /\ viewMode = "heat"
    /\ selectedHour = 14
    /\ analysisMode = "heat"
    /\ slider = Unmounted
    /\ location = <<>>
    /\ mode = "heat"
    /\ inflight = {}
    /\ nextId = 1
    /\ lastEvent = Event("init", NoReq, Null, "")

LadderIdle == score = 0 /\ bands = NoBands

ColorIdle ==
    /\ zone = [heat_score |-> 855, shade_coverage |-> 450,
               shade_deficit |-> 720, combined_score |-> 680]
    /\ colorMode = "undefined"
    /\ shadeColor = RenderShadeLayer(colorMode, zone)

GeoIdle ==
    /\ zones = <<>>
    /\ shadeLayer = ShadeLayer(<<>>)
    /\ heatLayer = HeatZoneLayer(<<>>)

PathIdle == proxy = {} /\ backendLog = {}

(***************************************************************************)
(* LadderSpec: the ladders applied to every score                          *)
(***************************************************************************)
LadderInit ==
    /\ score \in Scores
    /\ bands = NoBands
    /\ ColorIdle
    /\ PageInit
    /\ GeoIdle
    /\ PathIdle

Classify(s) ==
    /\ score' = s
    /\ bands' = Ladders(s)
    /\ UNCHANGED <<colorVars, pageVars, geoVars, pathVars>>

LadderNext == \E s \in Scores : Classify(s)

LadderSpec == LadderInit /\ [][LadderNext]_vars

(***************************************************************************)
(* ColorSpec: ShadeLayer re-rendered as its props change                   *)
(***************************************************************************)
ColorInit ==
    /\ zone \in ShadeZones
    /\ colorMode \in ColorModeProps
    /\ shadeColor = RenderShadeLayer(colorMode, zone)
    /\ LadderIdle
    /\ PageInit
    /\ GeoIdle
    /\ PathIdle

\* a new zones prop in which one field of the zone differs
SetZoneField(f, v) ==
    /\ zone' = [zone EXCEPT ![f] = v]
    /\ shadeColor' = RenderShadeLayer(colorMode, zone')
    /\ UNCHANGED <<colorMode, ladderVars, pageVars, geoVars,
                 pathVars>>

\* a new colorMode prop
SetColorMode(prop) ==
    /\ colorMode' = prop
    /\ shadeColor' = RenderShadeLayer(prop, zone)
    /\ UNCHANGED <<zone, ladderVars, pageVars, geoVars,
                 pathVars>>

ColorNext ==
    \/ \E f \in ZoneFields : \E v \in FieldValues(f) : SetZoneField(f, v)
    \/ \E prop \in ColorModeProps : SetColorMode(prop)

ColorSpec == ColorInit /\ [][ColorNext]_vars

(***************************************************************************)
(* Spec: the page driven through its rendered, enabled controls            *)
(***************************************************************************)
Init == PageInit /\ LadderIdle /\ ColorIdle /\ GeoIdle /\ PathIdle

\* typing in the search input
TypeLocation(str) ==
    /\ ~SearchInputDisabled
    /\ location' = str
    /\ lastEvent' = Event("type", NoReq, Null, "")
    /\ UNCHANGED <<mode, homeVars, slider, netVars, ladderVars, colorVars, geoVars,
                 pathVars>>

\* choosing a mode radio
SelectMode(m) ==
    /\ ~ModeRadioDisabled
    /\ mode' = m
    /\ lastEvent' = Event("mode", NoReq, Null, m)
    /\ UNCHANGED <<location, homeVars, slider, netVars, ladderVars, colorVars, geoVars,
                 pathVars>>

\* pressing the Analyze button
SubmitForm ==
    /\ ~SubmitDisabled
    /\ handleSubmit
    /\ RenderTimeSlider(slider.hour)
    /\ UNCHANGED <<formVars, ladderVars, colorVars, geoVars,
                 pathVars>>

\* a fetch settles
FetchSettles ==
    \E r \in inflight : \E o \in Outcomes :
        /\ Settle(r, o)
        /\ RenderTimeSlider(slider.hour)
        /\ UNCHANGED <<ladderVars, colorVars, geoVars, pathVars>>

\* clicking a ViewToggle button
ClickView(view) ==
    /\ ViewToggleRendered
    /\ ~ViewButtonDisabled(view)
    /\ handleViewChange(view)
    /\ RenderTimeSlider(slider.hour)
    /\ UNCHANGED <<formVars, netVars, ladderVars, colorVars, geoVars,
                 pathVars>>

\* moving the TimeSlider thumb
SlideHour(h) ==
    /\ TimeSliderRendered
    /\ ~TimeSliderDisabled
    /\ TimeSlider_handleChange(RangeValue(h))
    /\ UNCHANGED <<formVars, netVars, ladderVars, colorVars, geoVars,
                 pathVars>>

Next ==
    \/ \E str \in LocStrings : TypeLocation(str)
    \/ \E m \in AnalysisModes : SelectMode(m)
    \/ SubmitForm
    \/ FetchSettles
    \/ \E view \in ViewModes : ClickView(view)
    \/ \E h \in sunrise..sunset : SlideHour(h)

Spec == Init /\ [][Next]_vars

(***************************************************************************)
(* HandlerSpec: the handlers of Home called directly, in any state         *)
(***************************************************************************)
HandlerLocation == <<"a">>
HandlerHours == {sunrise, 14, sunset}

CallHandleAnalyze(m) ==
    /\ handleAnalyze(HandlerLocation, m)
    /\ RenderTimeSlider(slider.hour)
    /\ UNCHANGED <<formVars, ladderVars, colorVars, geoVars,
                 pathVars>>

CallHandleViewChange(view) ==
    /\ handleViewChange(view)
    /\ RenderTimeSlider(slider.hour)
    /\ UNCHANGED <<formVars, netVars, ladderVars, colorVars, geoVars,
                 pathVars>>

CallHandleHourChange(h) ==
    /\ handleHourChange(h)
    /\ RenderTimeSlider(slider.hour)
    /\ UNCHANGED <<formVars, netVars, ladderVars, colorVars, geoVars,
                 pathVars>>

HandlerNext ==
    \/ \E m \in AnalysisModes : CallHandleAnalyze(m)
    \/ FetchSettles
    \/ \E view \in ViewModes : CallHandleViewChange(view)
    \/ \E h \in HandlerHours : CallHandleHourChange(h)

HandlerSpec == Init /\ [][HandlerNext]_vars

(***************************************************************************)
(* GeoSpec: the two layers re-rendered as the zones prop changes           *)
(***************************************************************************)
GeoInit ==
    /\ GeoIdle
    /\ PageInit
    /\ LadderIdle
    /\ ColorIdle
    /\ PathIdle

\* both layers rendered with a new zones prop, effects run
RenderZones(zs) ==
    /\ zones' = zs
    /\ shadeLayer' = ShadeLayer(zs)
    /\ heatLayer' = HeatZoneLayer(zs)
    /\ UNCHANGED <<ladderVars, colorVars, pageVars, pathVars>>

\* a response with one more zone
ZoneAdded(z) ==
    /\ Len(zones) < MaxGeoZones
    /\ RenderZones(Append(zones, z))

\* a response without zone i
ZoneRemoved(i) ==
    /\ i \in 1..Len(zones)
    /\ RenderZones(SubSeq(zones, 1, i - 1) \o SubSeq(zones, i + 1, Len(zones)))

GeoNext ==
    \/ \E z \in GeoZones : ZoneAdded(z)
    \/ \E i \in 1..MaxGeoZones : ZoneRemoved(i)

GeoSpec == GeoInit /\ [][GeoNext]_vars

(***************************************************************************)
(* PathSpec: handleAnalyze, the route it fetches, and the backend          *)
(***************************************************************************)
\* the fetch of request r reaches its route
RouteInvoked(r) ==
    /\ r \in inflight
    /\ \A inv \in proxy : ~(inv.client = "page" /\ inv.id = r.id)
    /\ POST_begin("page", r.id, RouteOf(r.mode), PageBody(r))
    /\ lastEvent' = Event("route", r, Null, RouteOf(r.mode))
    /\ UNCHANGED <<homeVars, slider, formVars, netVars, ladderVars,
                   colorVars, geoVars>>

\* another client posts to a route
DirectPost(route, body) ==
    /\ Cardinality(DirectPosts) < MaxDirectPosts
    /\ POST_begin("direct", Cardinality(DirectPosts) + 1, route, body)
    /\ lastEvent' = Event("direct", NoReq, Null, route)
    /\ UNCHANGED <<homeVars, slider, formVars, netVars, ladderVars,
                   colorVars, geoVars>>

\* the backend fetch of an invocation settles and the route returns
BackendSettles(inv, o) ==
    /\ POST_end(inv, o)
    /\ lastEvent' = Event("backend", NoReq, Null, o.type)
    /\ UNCHANGED <<homeVars, slider, formVars, netVars, ladderVars,
                   colorVars, geoVars>>

\* the route's response reaches handleAnalyze
ResponseDelivered(r) ==
    /\ \E inv \in proxy :
          /\ inv.client = "page"
          /\ inv.id = r.id
          /\ inv.stage = "responded"
          /\ Settle(r, PageOutcome(inv.response))
    /\ RenderTimeSlider(slider.hour)
    /\ UNCHANGED <<ladderVars, colorVars, geoVars, pathVars>>

\* the fetch of request r rejects (the route was not reached, or its
\* response was lost)
FetchRejected(r) ==
    /\ Settle(r, Rejected)
    /\ RenderTimeSlider(slider.hour)
    /\ UNCHANGED <<ladderVars, colorVars, geoVars, pathVars>>

PathNext ==
    \/ \E m \in AnalysisModes : CallHandleAnalyze(m)
    \/ \E r \in inflight : RouteInvoked(r)
    \/ \E inv \in proxy : \E o \in BackendOutcomes : BackendSettles(inv, o)
    \/ \E r \in inflight : ResponseDelivered(r)
    \/ \E r \in inflight : FetchRejected(r)

PathSpec == Init /\ [][PathNext]_vars

(***************************************************************************)
(* RouteSpec: the two routes posted to by any client                       *)
(***************************************************************************)
RouteNext ==
    \/ \E route \in Routes : \E body \in DirectBodies : DirectPost(route, body)
    \/ \E inv \in proxy : \E o \in BackendOutcomes : BackendSettles(inv, o)

RouteSpec == Init /\ [][RouteNext]_vars

(***************************************************************************)
(* FairSpec: analyses started and settled, every awaited fetch settling    *)
(* in the end (the promise of a fetch resolves or rejects)                 *)
(***************************************************************************)
FairNext ==
    \/ \E m \in AnalysisModes : CallHandleAnalyze(m)
    \/ FetchSettles

FairSpec == Init /\ [][FairNext]_vars /\ WF_vars(FetchSettles)

(***************************************************************************)
(* Claims                                                                  *)
(***************************************************************************)

\* C1: the heat ladder is total and the same in HeatZoneLayer.getColor and
\* ShadeLayer.getHeatColor: s >= 80 gives #dc2626, 60 <= s < 80 gives
\* #f97316, 40 <= s < 60 gives #fbbf24 and every s < 40 gives #fbbf24 too;
\* 85.5 gives #dc2626.
C1_HeatColour ==
    bands.called =>
        /\ bands.heatZoneLayer = bands.heat
        /\ bands.heat \in {"#dc2626", "#f97316", "#fbbf24"}
        /\ (score >= 800 => bands.heat = "#dc2626")
        /\ (score >= 600 /\ score < 800 => bands.heat = "#f97316")
        /\ (score >= 400 /\ score < 600 => bands.heat = "#fbbf24")
        /\ (score < 400 => bands.heat = "#fbbf24")
        /\ (score = 855 => bands.heat = "#dc2626")

C1_Witness ==
    /\ bands.called
    /\ score = 855
    /\ bands.heat = "#dc2626"
    /\ bands.heatZoneLayer = "#dc2626"

\* rank of a colour of the combined ladder: low 0, medium 1, high 2, critical 3
C2_Rank(colour) ==
    CASE colour = "#16a34a" -> 0
      [] colour = "#ca8a04" -> 1
      [] colour = "#f97316" -> 2
      [] colour = "#dc2626" -> 3
      [] OTHER -> 0 - 1

\* C2: getCombinedColor partitions the scores into four bands with
\* lower-inclusive boundaries 30/50/70 (each score in exactly one band), and
\* it is monotone: a larger score never gets a lower band.
C2_CombinedPartition ==
    /\ [](bands.called =>
            /\ (bands.combined = "#dc2626" <=> score >= 700)
            /\ (bands.combined = "#f97316" <=> (score >= 500 /\ score < 700))
            /\ (bands.combined = "#ca8a04" <=> (score >= 300 /\ score < 500))
            /\ (bands.combined = "#16a34a" <=> score < 300))
    /\ [][(bands.called /\ bands'.called /\ score' >= score)
            => C2_Rank(bands'.combined) >= C2_Rank(bands.combined)]_vars

C2_Witness ==
    /\ bands.called
    /\ score = 699
    /\ bands.combined = "#f97316"

\* C3: getShadeColor: v >= 70 is green #16a34a, 40 <= v < 70 is yellow
\* #ca8a04, v < 40 is red #dc2626; lower bounds inclusive, one band each.
C3_ShadeColour ==
    bands.called =>
        /\ (score >= 700 => bands.coverage = "#16a34a")
        /\ (score >= 400 /\ score < 700 => bands.coverage = "#ca8a04")
        /\ (score < 400 => bands.coverage = "#dc2626")

C3_Witness ==
    /\ bands.called
    /\ score = 400
    /\ bands.coverage = "#ca8a04"

\* C4: getDeficitColor: v >= 70 is red #dc2626, 40 <= v < 70 is orange
\* #f97316, v < 40 is green #16a34a; lower bounds inclusive, one band each.
C4_DeficitColour ==
    bands.called =>
        /\ (score >= 700 => bands.deficit = "#dc2626")
        /\ (score >= 400 /\ score < 700 => bands.deficit = "#f97316")
        /\ (score < 400 => bands.deficit = "#16a34a")

C4_Witness ==
    /\ bands.called
    /\ score = 700
    /\ bands.deficit = "#dc2626"

\* C5: the polarity of the two ladders is never swapped: coverage is green
\* exactly for v >= 70 and red exactly for v < 40, deficit is red exactly for
\* v >= 70 and green exactly for v < 40, and for no v do the two ladders
\* give the same colour.
C5_Polarity ==
    bands.called =>
        /\ (bands.coverage = "#16a34a" <=> score >= 700)
        /\ (bands.coverage = "#dc2626" <=> score < 400)
        /\ (bands.deficit = "#dc2626" <=> score >= 700)
        /\ (bands.deficit = "#16a34a" <=> score < 400)
        /\ bands.coverage # bands.deficit

C5_Witness ==
    /\ bands.called
    /\ score = 1000
    /\ bands.coverage = "#16a34a"
    /\ bands.deficit = "#dc2626"

\* the score field a colour mode reads
C6_Field(cm) ==
    CASE cm = "heat"     -> "heat_score"
      [] cm = "coverage" -> "shade_coverage"
      [] cm = "deficit"  -> "shade_deficit"
      [] OTHER           -> "combined_score"

\* C6: ShadeLayer.getColor picks the ladder from the mode alone and applies
\* it to the matching field: heat -> heat_score, coverage -> shade_coverage,
\* deficit -> shade_deficit, combined and anything else -> combined_score;
\* the colour under a mode does not change when another field changes; with
\* coverage 45, deficit 72 and combined 68 the bands are moderate, critical
\* and high.
C6_ModeSelectsLadder ==
    /\ [](LET cm == ColorModeParam(colorMode) IN
            /\ (cm = "heat" => shadeColor = Ladders(zone.heat_score).heat)
            /\ (cm = "coverage"
                  => shadeColor = Ladders(zone.shade_coverage).coverage)
            /\ (cm = "deficit"
                  => shadeColor = Ladders(zone.shade_deficit).deficit)
            /\ (cm \notin {"heat", "coverage", "deficit"}
                  => shadeColor = Ladders(zone.combined_score).combined)
            /\ (cm = "coverage" /\ zone.shade_coverage = 450
                  => shadeColor = "#ca8a04")
            /\ (cm = "deficit" /\ zone.shade_deficit = 720
                  => shadeColor = "#dc2626")
            /\ (cm = "combined" /\ zone.combined_score = 680
                  => shadeColor = "#f97316"))
    /\ [][(/\ colorMode' = colorMode
           /\ zone'[C6_Field(colorMode)] = zone[C6_Field(colorMode)])
            => shadeColor' = shadeColor]_vars

C6_Witness ==
    /\ colorMode = "deficit"
    /\ zone.shade_coverage = 450
    /\ zone.shade_deficit = 720
    /\ zone.combined_score = 680
    /\ zone.heat_score = 599
    /\ shadeColor = "#dc2626"

\* C7: handleViewChange, accepted or rejected, changes nothing but viewMode:
\* heatResult, shadeResult, selectedHour, error, loading and analysisMode
\* are left as they were.
C7_ViewChangeFrame ==
    [][lastEvent'.op = "viewChange"
        => UNCHANGED <<heatResult, shadeResult, selectedHour, error, loading,
                       analysisMode>>]_vars

C7_Witness ==
    /\ lastEvent.op = "viewChange"
    /\ lastEvent.arg = "shade"
    /\ viewMode = "shade"
    /\ shadeResult # Null
    /\ shadeResult.nzones > 0
    /\ selectedHour = sunset

\* C8: while a request is in flight loading is true and the search input,
\* the submit button, the mode radios, the view toggle and the time slider
\* are disabled, so handleAnalyze cannot be started again and at most one
\* request is outstanding.
C8_OneRequest ==
    /\ Cardinality(inflight) <= 1
    /\ inflight # {} =>
        /\ loading
        /\ SearchInputDisabled
        /\ SubmitDisabled
        /\ ModeRadioDisabled
        /\ \A view \in ViewModes : ViewButtonDisabled(view)
        /\ TimeSliderDisabled
        /\ ~ENABLED SubmitForm

C8_Witness ==
    /\ inflight # {}
    /\ loading
    /\ ViewToggleRendered
    /\ TimeSliderRendered
    /\ Truthy(trim(location))

\* C9: a successful analysis replaces the whole result set in one step:
\* after a heat success heatResult is the new response, shadeResult is null
\* and viewMode is 'heat'; after a combined success shadeResult is the new
\* response, heatResult is null and viewMode is 'combined'; in no state does
\* a result coexist with a result of the other kind, or a heat result with a
\* shade or combined view.
C9_AtomicReplace ==
    /\ (lastEvent.op = "success" /\ lastEvent.req.mode = "heat") =>
        /\ lastEvent.data.id = lastEvent.req.id
        /\ heatResult = lastEvent.data
        /\ shadeResult = Null
        /\ viewMode = "heat"
    /\ (lastEvent.op = "success" /\ lastEvent.req.mode = "combined") =>
        /\ lastEvent.data.id = lastEvent.req.id
        /\ shadeResult = lastEvent.data
        /\ heatResult = Null
        /\ viewMode = "combined"
    /\ ~(heatResult # Null /\ shadeResult # Null)
    /\ (heatResult # Null => viewMode = "heat")

C9_Witness ==
    /\ lastEvent.op = "success"
    /\ lastEvent.req.mode = "heat"
    /\ lastEvent.req.before.shadeResult # Null
    /\ lastEvent.req.before.viewMode = "shade"
    /\ heatResult = lastEvent.data
    /\ shadeResult = Null
    /\ viewMode = "heat"

\* C10: a failed analysis request clears nothing and updates nothing:
\* heatResult, shadeResult and viewMode are what they were before the request
\* was issued, and the only effect is that an error message is set (the rest
\* of the page, the header's analysis-type line included, is as before).
C10_FailureOnlySetsError ==
    lastEvent.op = "failure" =>
        /\ heatResult = lastEvent.req.before.heatResult
        /\ shadeResult = lastEvent.req.before.shadeResult
        /\ viewMode = lastEvent.req.before.viewMode
        /\ selectedHour = lastEvent.req.before.selectedHour
        /\ loading = lastEvent.req.before.loading
        /\ error # NoError
        /\ HeaderLabel(HomeState) = HeaderLabel(lastEvent.req.before)

\* C11 (as claimed): every failure of an analysis, a non-2xx response or a
\* rejected fetch, shows exactly the generic message of the chosen mode, and
\* no other error text is ever shown.
C11_AlwaysGenericMessage ==
    /\ error \in {NoError, "Failed to analyze heat zones",
                  "Failed to analyze heat and shade zones"}
    /\ (lastEvent.op = "failure" /\ lastEvent.req.mode = "heat")
          => error = "Failed to analyze heat zones"
    /\ (lastEvent.op = "failure" /\ lastEvent.req.mode = "combined")
          => error = "Failed to analyze heat and shade zones"

\* C11 (amended): a non-2xx response shows exactly the generic message of
\* the chosen mode; a rejected fetch or an unparsable body shows the message
\* of the error that was thrown, which is not one of the generic messages.
C11_GenericOnNotOk ==
    lastEvent.op = "failure" =>
        /\ (lastEvent.arg = "notOk" /\ lastEvent.req.mode = "heat")
              => error = "Failed to analyze heat zones"
        /\ (lastEvent.arg = "notOk" /\ lastEvent.req.mode = "combined")
              => error = "Failed to analyze heat and shade zones"
        /\ lastEvent.arg = "rejected" => error = "Failed to fetch"
        /\ lastEvent.arg = "badJson" => error = "Unexpected token"

C11_Witness ==
    /\ lastEvent.op = "failure"
    /\ lastEvent.arg = "rejected"
    /\ lastEvent.req.mode = "combined"
    /\ error = "Failed to fetch"

\* the view mode a successful request of mode m sets
C13_ViewOf(m) == IF m = "heat" THEN "heat" ELSE "combined"

\* the error message a failed request shows
C13_MessageOf(r, type) ==
    CASE type = "notOk" /\ r.mode = "heat" -> "Failed to analyze heat zones"
      [] type = "notOk" /\ r.mode # "heat" -> "Failed to analyze heat and shade zones"
      [] type = "rejected" -> "Failed to fetch"
      [] OTHER -> "Unexpected token"

\* the result on display is the response d of request r
C13_Shows(r, d) ==
    /\ d.id = r.id
    /\ IF r.mode = "heat"
       THEN heatResult = d /\ shadeResult = Null
       ELSE shadeResult = d /\ heatResult = Null

\* C13 (as claimed): with overlapping handleAnalyze calls, the result set,
\* the view mode and the error shown are those of the request that resolved
\* last: after a success its response, its view mode and no error; after a
\* failure its error message.
C13_LastResolvedWins ==
    /\ lastEvent.op = "success" =>
        /\ C13_Shows(lastEvent.req, lastEvent.data)
        /\ viewMode = C13_ViewOf(lastEvent.req.mode)
        /\ error = NoError
    /\ lastEvent.op = "failure" =>
        error = C13_MessageOf(lastEvent.req, lastEvent.arg)

\* C13 (amended): overlapping handleAnalyze calls are not sequenced: a
\* response that resolves successfully overwrites the result set and the view
\* mode whatever its place in the order of issue, and leaves error as it
\* was; a failure overwrites error alone and leaves the result set and the
\* view mode as they were.
C13_EachResponseOverwrites ==
    /\ [](lastEvent.op = "success" =>
            /\ C13_Shows(lastEvent.req, lastEvent.data)
            /\ viewMode = C13_ViewOf(lastEvent.req.mode))
    /\ [](lastEvent.op = "failure" =>
            error = C13_MessageOf(lastEvent.req, lastEvent.arg))
    /\ [][lastEvent'.op = "success" => error' = error]_vars
    /\ [][lastEvent'.op = "failure"
            => UNCHANGED <<heatResult, shadeResult, viewMode>>]_vars

\* the response of request 1 replaces the result of request 2, which was
\* issued later and had succeeded before
C13_Witness ==
    /\ lastEvent.op = "success"
    /\ lastEvent.req.id = 1
    /\ lastEvent.req.mode = "heat"
    /\ nextId = 3
    /\ inflight = {}
    /\ error = NoError
    /\ heatResult.id = 1
    /\ shadeResult = Null

\* C18: in every reachable state viewMode 'shade' or 'combined' implies that
\* shadeResult is not null, and a handleViewChange to 'shade' or 'combined'
\* while shadeResult is null leaves viewMode unchanged.
C18_ShadeViewsNeedShadeData ==
    /\ [](viewMode \in {"shade", "combined"} => shadeResult # Null)
    /\ [][(/\ lastEvent'.op = "viewChange"
           /\ lastEvent'.arg \in {"shade", "combined"}
           /\ shadeResult = Null)
            => viewMode' = viewMode]_vars

C18_Witness ==
    /\ lastEvent.op = "viewChange"
    /\ lastEvent.arg = "shade"
    /\ shadeResult = Null
    /\ heatResult # Null
    /\ viewMode = "heat"

\* C19: at most one of heatResult and shadeResult is not null, and the one
\* that is not null is the response of the request that succeeded most
\* recently: a success installs its response, and no other step changes the
\* results.
C19_SingleCurrentResult ==
    /\ [](~(heatResult # Null /\ shadeResult # Null))
    /\ [](lastEvent.op = "success" =>
            IF lastEvent.req.mode = "heat"
            THEN heatResult = lastEvent.data /\ heatResult.id = lastEvent.req.id
            ELSE shadeResult = lastEvent.data /\ shadeResult.id = lastEvent.req.id)
    /\ [][lastEvent'.op # "success"
            => UNCHANGED <<heatResult, shadeResult>>]_vars

C19_Witness ==
    /\ lastEvent.op = "failure"
    /\ lastEvent.req.id = 2
    /\ heatResult # Null
    /\ heatResult.id = 1
    /\ shadeResult = Null

\* C14: a response whose zone list is empty renders no layer and no legend:
\* showHeatLayer and showShadeLayer are false in every view mode, the Legend
\* is not rendered, and the page renders no map, view toggle, time slider or
\* hourly summary (hasAnyData is false).
C14_EmptyRendersNothing ==
    (/\ heatResult # Null \/ shadeResult # Null
     /\ heatResult.nzones = 0
     /\ shadeResult.nzones = 0) =>
        /\ \A variant \in MapViewVariants : \A vm \in ViewModes :
              /\ ~showHeatLayer(variant, vm, heatResult, shadeResult)
              /\ ~showShadeLayer(variant, vm, heatResult, shadeResult)
              /\ ~LegendRendered(variant, vm, heatResult, shadeResult)
        /\ ~hasAnyData
        /\ ~MapViewRendered
        /\ ~ViewToggleRendered
        /\ ~TimeSliderRendered
        /\ \A n \in 0..1 : ~HourlySummaryRendered(n)

C14_Witness ==
    /\ lastEvent.op = "success"
    /\ shadeResult # Null
    /\ shadeResult.nzones = 0
    /\ viewMode = "combined"
    /\ ~hasAnyData

\* C20: when shade data is the only data held (a combined analysis with a
\* non-empty zone list succeeded), every view mode renders exactly one layer
\* and its legend: 'heat' the ShadeLayer with the heat ladder, 'shade' with
\* the coverage ladder, 'combined' with the combined ladder; and in no state
\* are HeatZoneLayer and ShadeLayer both rendered.
C20_OneLayerPerView ==
    \A variant \in MapViewVariants :
        /\ ~(/\ showHeatLayer(variant, viewMode, heatResult, shadeResult)
             /\ showShadeLayer(variant, viewMode, heatResult, shadeResult))
        /\ (hasShadeData /\ heatResult = Null) =>
            /\ ~showHeatLayer(variant, viewMode, heatResult, shadeResult)
            /\ showShadeLayer(variant, viewMode, heatResult, shadeResult)
            /\ LegendRendered(variant, viewMode, heatResult, shadeResult)
            /\ shadeColorMode(variant, viewMode) =
                  (CASE viewMode = "heat" -> "heat"
                     [] viewMode = "shade" -> "coverage"
                     [] OTHER -> "combined")

\* C15: geometry round-trip.  In ShadeLayer and in HeatZoneLayer a zone with
\* geometry renders one polygon whose ring has as many points as the outer
\* ring coordinates[0], in the same order, each [lon, lat] swapped to
\* [lat, lon]; in ShadeLayer a zone with only a center renders one circle
\* at [center.lat, center.lon].  One shape slot per zone.
C15_RoundTrip(shape, ring) ==
    /\ shape.kind = "Polygon"
    /\ Len(shape.positions) = Len(ring)
    /\ \A k \in 1..Len(ring) :
          /\ shape.positions[k][1] = ring[k][2]
          /\ shape.positions[k][2] = ring[k][1]

C15_GeometryRoundTrip ==
    /\ Len(shadeLayer.shapes) = Len(zones)
    /\ ~heatLayer.threw => Len(heatLayer.shapes) = Len(zones)
    /\ \A i \in 1..Len(zones) :
          /\ hasCoordinates(zones[i]) =>
                /\ C15_RoundTrip(shadeLayer.shapes[i],
                                 zones[i].geometry.coordinates[1])
                /\ ~heatLayer.threw =>
                      C15_RoundTrip(heatLayer.shapes[i],
                                    zones[i].geometry.coordinates[1])
          /\ (~zones[i].geometry.def /\ zones[i].center.def) =>
                /\ shadeLayer.shapes[i].kind = "Circle"
                /\ shadeLayer.shapes[i].center =
                      <<zones[i].center.lat, zones[i].center.lon>>
                /\ shadeLayer.shapes[i].positions = <<>>

C15_Witness ==
    /\ Len(zones) = 2
    /\ hasCoordinates(zones[1])
    /\ Len(zones[1].geometry.coordinates) = 2
    /\ ~zones[2].geometry.def /\ zones[2].center.def
    /\ shadeLayer.shapes[1].positions = << <<37, 0 - 122>> >>
    /\ shadeLayer.shapes[2].kind = "Circle"

\* C16: a ShadeZone with neither geometry nor center is skipped: it renders
\* no shape, adds no point to the fit-bounds computation, raises no error,
\* and the other zones of the response render as they do without it; when
\* every zone is of this kind fitBounds is not called.
C16_Skipped(z) == ~hasCoordinates(z) /\ ~z.center.def

RECURSIVE C16_Points(_)
C16_Points(zs) ==
    IF zs = <<>> THEN 0
    ELSE (IF hasCoordinates(Head(zs))
          THEN Len(Head(zs).geometry.coordinates[1])
          ELSE IF Head(zs).center.def THEN 1 ELSE 0)
         + C16_Points(Tail(zs))

C16_SkippedSilently ==
    /\ ~shadeLayer.threw
    /\ Len(shadeLayer.fitBounds.points) = C16_Points(zones)
    /\ shadeLayer.fitBounds.called <=> C16_Points(zones) > 0
    /\ \A i \in 1..Len(zones) :
          IF C16_Skipped(zones[i])
          THEN shadeLayer.shapes[i] = NoShape
          ELSE /\ shadeLayer.shapes[i].kind =
                     (IF hasCoordinates(zones[i]) THEN "Polygon" ELSE "Circle")
               /\ shadeLayer.shapes[i] = ShadeLayer(<<zones[i]>>).shapes[1]
    /\ (\A i \in 1..Len(zones) : C16_Skipped(zones[i])) =>
          ~shadeLayer.fitBounds.called

C16_Witness ==
    /\ Len(zones) = 2
    /\ C16_Skipped(zones[1])
    /\ zones[1].geometry.def
    /\ shadeLayer.shapes[1].kind = "null"
    /\ shadeLayer.shapes[2].kind = "Polygon"
    /\ shadeLayer.fitBounds.called
    /\ Len(shadeLayer.fitBounds.points) = 2

\* C12: no retry on the path.  A handleAnalyze call issues one fetch and
\* nothing else does: the serial number of fetches advances only in a
\* handleAnalyze step, and by one; a settled fetch, successful or failed,
\* only leaves the set of awaited fetches.  A fetch reaches its route at
\* most once, and a route invocation sends at most one fetch to the
\* backend, sent when the invocation begins and never after the backend
\* fetch has settled.
C12_BackendFetches(inv) ==
    {e \in backendLog : e.client = inv.client /\ e.inv = inv.id}

C12_NoRetry ==
    /\ [](\A inv \in proxy : Cardinality(C12_BackendFetches(inv)) <= 1)
    /\ [](Cardinality(backendLog) <= Cardinality(proxy))
    /\ [](Cardinality(proxy) <= nextId - 1)
    /\ [][nextId' # nextId =>
            /\ lastEvent'.op = "analyze"
            /\ nextId' = nextId + 1
            /\ lastEvent'.req \notin inflight
            /\ inflight' = inflight \cup {lastEvent'.req}]_vars
    /\ [][lastEvent'.op # "analyze" => inflight' \subseteq inflight]_vars
    /\ [][lastEvent'.op \in {"success", "failure"} =>
            /\ nextId' = nextId
            /\ backendLog' = backendLog
            /\ proxy' = proxy]_vars
    /\ [][backendLog' # backendLog =>
            /\ lastEvent'.op = "route"
            /\ Cardinality(backendLog') = Cardinality(backendLog) + 1]_vars

C12_Witness ==
    /\ lastEvent.op = "failure"
    /\ lastEvent.arg = "notOk"
    /\ nextId = 2
    /\ inflight = {}
    /\ Cardinality(backendLog) = 1
    /\ \E inv \in proxy :
          /\ inv.backend.type = "rejected"
          /\ inv.response.status = 500

\* C17: the proxy routes.  analyze-heat forwards exactly {location} by POST
\* to BACKEND_URL/analyze, analyze-combined exactly {location, hours} to
\* BACKEND_URL/analyze-combined; a 2xx backend response with a JSON body is
\* answered with that body; every other outcome (non-2xx status, rejected
\* fetch, unparsable request or response body) is answered with status 500
\* and the route's fixed error body, without the backend's status or text.
C17_ProxyContract ==
    \A inv \in proxy :
        LET sent == {e \in backendLog :
                        e.client = inv.client /\ e.inv = inv.id}
            heat == inv.route = "/api/analyze-heat"
        IN
        /\ Cardinality(sent) <= 1
        /\ inv.body.kind \in {"unparsable", "null"} =>
              sent = {} /\ inv.stage = "responded"
        /\ \A e \in sent :
              /\ e.method = "POST"
              /\ e.url = <<"http://localhost:8080",
                           IF heat THEN "/analyze" ELSE "/analyze-combined">>
              /\ e.body.kind = "object"
              /\ e.body.location = inv.body.location
              /\ e.body.hours = (IF heat THEN Undefined ELSE inv.body.hours)
              /\ e.body.extra = Undefined
        /\ inv.stage = "responded" =>
              IF inv.backend.type = "ok" /\ inv.backend.parsable
              THEN /\ inv.response.status = 200
                   /\ inv.response.nzones = inv.backend.nzones
                   /\ inv.response.detail = inv.backend.detail
                   /\ inv.response.error = ""
              ELSE /\ inv.response.status = 500
                   /\ inv.response.error =
                         (IF heat THEN "Failed to analyze heat zones"
                          ELSE "Failed to analyze heat and shade zones")
                   /\ inv.response.detail = ""
                   /\ inv.response.nzones = 0

C17_Witness ==
    \E inv \in proxy :
        /\ inv.route = "/api/analyze-heat"
        /\ inv.body.extra.def
        /\ inv.body.hours.def
        /\ inv.stage = "responded"
        /\ inv.backend.status = 404
        /\ inv.response.status = 500

\* C21: while the TimeSlider is mounted its displayed hour equals the page's
\* selectedHour, after any slider change and any re-render; the slider is
\* mounted exactly when its render condition holds; the hour lies in
\* [sunrise, sunset] = [6, 20]; selectedHour starts at 14 and no step that
\* starts or completes an analysis changes it.
C21_SliderFollowsPage ==
    /\ selectedHour = 14
    /\ [](slider.mounted <=> TimeSliderRendered)
    /\ [](slider.mounted => slider.hour = selectedHour)
    /\ [](selectedHour \in 6..20)
    /\ [](sunrise = 6 /\ sunset = 20)
    /\ [][lastEvent'.op \in {"analyze", "success", "failure"} =>
            selectedHour' = selectedHour]_vars

C21_Witness ==
    /\ lastEvent.op = "success"
    /\ lastEvent.req.before.selectedHour = 20
    /\ selectedHour = 20
    /\ slider.mounted
    /\ slider.hour = 20

\* C22: every started analysis leaves the loading state.  Provided awaited
\* fetches settle, loading is always followed by not loading; the step in
\* which a fetch settles ends with loading false on the success path, the
\* non-2xx path and the exception paths alike; when nothing is awaited the
\* page is not loading, and when it is not loading the search input and
\* the mode radios are enabled.
C22_LeavesLoading ==
    /\ loading ~> ~loading
    /\ [][lastEvent'.op \in {"success", "failure"} => ~loading']_vars
    /\ [](inflight = {} => ~loading)
    /\ [](~loading => (~SearchInputDisabled /\ ~ModeRadioDisabled
                         /\ ~TimeSliderDisabled))

C22_Witness ==
    /\ lastEvent.op = "failure"
    /\ lastEvent.arg = "badJson"
    /\ lastEvent.req.id = 2
    /\ ~loading
    /\ inflight = {}

\* C23: the error banner reflects only the latest request.  The step that
\* starts an analysis ends with error null, the step that completes one
\* successfully ends with error null, the step in which one fails ends with
\* error non-null (the banner is rendered), and no other step changes
\* error: so whenever nothing is in flight, error is non-null exactly when
\* the request that completed last failed.
C23_BannerOfLatestRequest ==
    /\ error = NoError
    /\ [](lastEvent.op = "analyze" => error = NoError /\ ~ErrorBannerRendered)
    /\ [](lastEvent.op = "success" => error = NoError /\ ~ErrorBannerRendered)
    /\ [](lastEvent.op = "failure" => error # NoError /\ ErrorBannerRendered)
    /\ [][lastEvent'.op \notin {"analyze", "success", "failure"} =>
            error' = error]_vars
    /\ [](inflight # {} => error = NoError)
    /\ []((inflight = {} /\ nextId = 1) => error = NoError)

C23_Witness ==
    /\ lastEvent.op = "success"
    /\ lastEvent.req.before.error = "Failed to fetch"
    /\ error = NoError
    /\ inflight = {}

\* C24: the analysis-type label of the header matches the kind of result on
\* display: in every state where data is shown, analysisMode is 'combined'
\* exactly when shadeResult is the held result and 'heat' exactly when
\* heatResult is, also after a failed request of the other mode.
C24_LabelMatchesResult ==
    hasAnyData =>
        /\ analysisMode = "combined" <=> shadeResult # Null
        /\ analysisMode = "heat" <=> heatResult # Null
        /\ HeaderLabel(HomeState) =
              (IF shadeResult # Null THEN "Heat + Shade Analysis"
               ELSE "Heat Analysis")

\* C25: the legend on display describes the ladder that colours the visible
\* layer.  View 'heat' shows the Heat Score legend (red 80-100, orange
\* 60-79, yellow 40-59), 'shade' the Shade Coverage legend (green 70%+,
\* yellow 40-69%, red <40%), 'combined' the Priority Score legend (red 70+,
\* orange 50-69, yellow 30-49, green <30); whichever layer a MapView shows
\* next to a legend, for every whole score inside a legend range the
\* colour of that range is the colour the layer's ladder returns.
C25_InRow(row, s) ==
    /\ s % 10 = 0
    /\ CASE row.open = "above" -> s >= Tenths(row.lo)
         [] row.open = "below" -> s < Tenths(row.hi)
         [] OTHER -> s >= Tenths(row.lo) /\ s <= Tenths(row.hi)

C25_Zone ==
    [heat_score |-> score, shade_coverage |-> score,
     shade_deficit |-> score, combined_score |-> score]

C25_Swatches(vm) ==
    [i \in 1..Len(Legend(vm).rows) |->
        <<TailwindColor(Legend(vm).rows[i].class), Legend(vm).rows[i].lo,
          Legend(vm).rows[i].hi, Legend(vm).rows[i].open>>]

====
